---- MODULE Spec2Model ----
(***************************************************************************)
(* The AWS wrapper of package shared: secret retrieval with JSON / base64  *)
(* decoding, environment injection, SQS lookups and sends, S3 upload.      *)
(*                                                                         *)
(* Text is a sequence of characters, each a one-character string; the NUL  *)
(* byte and bytes outside printable ASCII are the tokens NUL and BYTE.     *)
(***************************************************************************)
EXTENDS Integers, Sequences, FiniteSets, TLC

(***************************************************************************)
(* Bytes and characters                                                    *)
(***************************************************************************)
NUL == "NUL"
BYTE == "BYTE"

\* Printable ASCII, codes 32..126 in order (GRAVE is the backquote, code 96).
Printable ==
  << " ", "!", "\"", "#", "$", "%", "&", "'", "(", ")", "*", "+", ",", "-", ".", "/",
     "0", "1", "2", "3", "4", "5", "6", "7", "8", "9", ":", ";", "<", "=", ">", "?",
     "@", "A", "B", "C", "D", "E", "F", "G", "H", "I", "J", "K", "L", "M", "N", "O",
     "P", "Q", "R", "S", "T", "U", "V", "W", "X", "Y", "Z", "[", "\\", "]", "^", "_",
     "GRAVE", "a", "b", "c", "d", "e", "f", "g", "h", "i", "j", "k", "l", "m", "n", "o",
     "p", "q", "r", "s", "t", "u", "v", "w", "x", "y", "z", "{", "|", "}", "~" >>

IndexOf(seq, x) == CHOOSE i \in 1..Len(seq) : seq[i] = x
Has(seq, x) == \E i \in 1..Len(seq) : seq[i] = x

\* The byte value of a character.
Ord(c) == IF c = NUL THEN 0 ELSE 31 + IndexOf(Printable, c)

\* The character of a byte value.
Chr(n) == IF n = 0 THEN NUL
          ELSE IF n >= 32 /\ n <= 126 THEN Printable[n - 31]
          ELSE BYTE

\* s[from..], 1-based; empty when from is past the end.
Rest(s, from) == SubSeq(s, from, Len(s))

(***************************************************************************)
(* encoding/base64, StdEncoding (alphabet of RFC 4648, '=' padding)        *)
(***************************************************************************)
encodeStd ==
  << "A", "B", "C", "D", "E", "F", "G", "H", "I", "J", "K", "L", "M", "N", "O", "P",
     "Q", "R", "S", "T", "U", "V", "W", "X", "Y", "Z", "a", "b", "c", "d", "e", "f",
     "g", "h", "i", "j", "k", "l", "m", "n", "o", "p", "q", "r", "s", "t", "u", "v",
     "w", "x", "y", "z", "0", "1", "2", "3", "4", "5", "6", "7", "8", "9", "+", "/" >>

StdPadding == "="

\* The 6-bit value of an alphabet character.
Sextet(c) == IndexOf(encodeStd, c) - 1

\* StdEncoding.DecodedLen(n): the buffer size the callers allocate.
DecodedLen(n) == (n \div 4) * 3

\* The bytes of one quantum of k significant characters (k = 2, 3 or 4).
QuantumBytes(q, k) ==
  LET v1 == Sextet(q[1])
      v2 == Sextet(q[2])
      v3 == IF k >= 3 THEN Sextet(q[3]) ELSE 0
      v4 == IF k >= 4 THEN Sextet(q[4]) ELSE 0
      val == ((v1 * 64 + v2) * 64 + v3) * 64 + v4
      b1 == Chr(val \div 65536)
      b2 == Chr((val \div 256) % 256)
      b3 == Chr(val % 256)
  IN  IF k = 2 THEN << b1 >> ELSE IF k = 3 THEN << b1, b2 >> ELSE << b1, b2, b3 >>

\* StdEncoding.Decode's loop over src from position i with out written so far:
\* [n |-> bytes written, err |-> "nil" or "CorruptInputError", out |-> the bytes].
RECURSIVE DecodeFrom(_, _, _)
DecodeFrom(src, i, out) ==
  LET corrupt == [n |-> Len(out), err |-> "CorruptInputError", out |-> out]
  IN
  IF i > Len(src) THEN [n |-> Len(out), err |-> "nil", out |-> out]
  ELSE IF i + 3 > Len(src) THEN corrupt
  ELSE
    LET q == SubSeq(src, i, i + 3)
        last == (i + 3 = Len(src))
    IN
    IF ~Has(encodeStd, q[1]) \/ ~Has(encodeStd, q[2]) THEN corrupt
    ELSE IF q[3] = StdPadding THEN
      IF q[4] = StdPadding /\ last
      THEN LET o == out \o QuantumBytes(q, 2)
           IN  [n |-> Len(o), err |-> "nil", out |-> o]
      ELSE corrupt
    ELSE IF ~Has(encodeStd, q[3]) THEN corrupt
    ELSE IF q[4] = StdPadding THEN
      IF last
      THEN LET o == out \o QuantumBytes(q, 3)
           IN  [n |-> Len(o), err |-> "nil", out |-> o]
      ELSE corrupt
    ELSE IF ~Has(encodeStd, q[4]) THEN corrupt
    ELSE DecodeFrom(src, i + 4, out \o QuantumBytes(q, 4))

\* base64.StdEncoding.Decode(dst, src) with dst the DecodedLen buffer of zero
\* bytes: n, err, and dst after the call (the bytes past n stay zero).
\* r is what the loop wrote, size the length of dst.
Decoded64(r, size) ==
  [n |-> r.n, err |-> r.err,
   dst |-> [i \in 1..size |-> IF i <= r.n THEN r.out[i] ELSE NUL]]

Decode(src) == Decoded64(DecodeFrom(src, 1, << >>), DecodedLen(Len(src)))

\* base64.StdEncoding.EncodeToString, the provider's side of a binary payload.
RECURSIVE EncodeStd(_)
EncodeStd(t) ==
  IF Len(t) = 0 THEN << >>
  ELSE
    LET k == IF Len(t) >= 3 THEN 3 ELSE Len(t)
        b1 == Ord(t[1])
        b2 == IF k >= 2 THEN Ord(t[2]) ELSE 0
        b3 == IF k >= 3 THEN Ord(t[3]) ELSE 0
        val == (b1 * 256 + b2) * 256 + b3
        c1 == encodeStd[(val \div 262144) + 1]
        c2 == encodeStd[((val \div 4096) % 64) + 1]
        c3 == IF k >= 2 THEN encodeStd[((val \div 64) % 64) + 1] ELSE StdPadding
        c4 == IF k >= 3 THEN encodeStd[(val % 64) + 1] ELSE StdPadding
    IN  << c1, c2, c3, c4 >> \o EncodeStd(Rest(t, k + 1))

(***************************************************************************)
(* encoding/json: Unmarshal(data, &config) with config a map[string]string *)
(* The grammar covered: objects whose members are strings or numbers,      *)
(* top-level strings and numbers, spaces as whitespace, and the escapes    *)
(* \" \\ \/ inside strings. Anything else is a syntax error.               *)
(***************************************************************************)
Digits == {"0", "1", "2", "3", "4", "5", "6", "7", "8", "9"}

\* Bytes a JSON string may not hold unescaped (below 0x20), and the quote.
IsControl(c) == c = NUL \/ c = BYTE

RECURSIVE SkipSpace(_, _)
SkipSpace(s, i) ==
  IF i <= Len(s) /\ s[i] = " " THEN SkipSpace(s, i + 1) ELSE i

\* A string literal whose opening quote is at i - 1: the text up to the
\* closing quote. [ok, str, next], next the position after the closing quote.
RECURSIVE ScanString(_, _, _)
ScanString(s, i, acc) ==
  IF i > Len(s) THEN [ok |-> FALSE, str |-> acc, next |-> i]
  ELSE IF s[i] = "\"" THEN [ok |-> TRUE, str |-> acc, next |-> i + 1]
  ELSE IF IsControl(s[i]) THEN [ok |-> FALSE, str |-> acc, next |-> i]
  ELSE IF s[i] = "\\" THEN
    IF i + 1 <= Len(s) /\ s[i + 1] \in {"\"", "\\", "/"}
    THEN ScanString(s, i + 2, Append(acc, s[i + 1]))
    ELSE [ok |-> FALSE, str |-> acc, next |-> i]
  ELSE ScanString(s, i + 1, Append(acc, s[i]))

\* The position after the digits starting at i.
RECURSIVE SkipDigits(_, _)
SkipDigits(s, i) ==
  IF i <= Len(s) /\ s[i] \in Digits THEN SkipDigits(s, i + 1) ELSE i

\* The position after the number starting at i: 0, or a nonzero digit
\* followed by digits.
ScanNumber(s, i) == IF s[i] = "0" THEN i + 1 ELSE SkipDigits(s, i)

StringValue(r) == [ok |-> r.ok, kind |-> "string", str |-> r.str, next |-> r.next]
NumberValue(next) == [ok |-> TRUE, kind |-> "number", str |-> << >>, next |-> next]
NoValue(i) == [ok |-> FALSE, kind |-> "none", str |-> << >>, next |-> i]

\* A value starting at i (no leading space):
\* [ok, kind |-> "string" | "number", str, next].
ScanValue(s, i) ==
  IF i > Len(s) THEN NoValue(i)
  ELSE IF s[i] = "\"" THEN StringValue(ScanString(s, i + 1, << >>))
  ELSE IF s[i] \in Digits THEN NumberValue(ScanNumber(s, i))
  ELSE NoValue(i)

\* m with key set to value (a later member of the same name wins).
MapSet(m, key, value) ==
  [k \in DOMAIN m \cup {key} |-> IF k = key THEN value ELSE m[k]]

EmptyMap == [k \in {} |-> << >>]

\* The members of an object, scanned state by state; m the entries stored so
\* far, mismatch whether a member was not a string (it is stored as the zero
\* value "" and the error is saved for the end).
\* [ok, m, mismatch, next], next the position after the closing brace.
BadObject(m, mismatch, i) == [ok |-> FALSE, m |-> m, mismatch |-> mismatch, next |-> i]

RECURSIVE ScanMembers(_, _, _, _)

\* After a value, at e0: the closing brace, or a comma and the next member.
MemberEnd(s, e0, m, mismatch) ==
  IF e0 > Len(s) THEN BadObject(m, mismatch, e0)
  ELSE IF s[e0] = "}" THEN [ok |-> TRUE, m |-> m, mismatch |-> mismatch, next |-> e0 + 1]
  ELSE IF s[e0] = "," THEN ScanMembers(s, e0 + 1, m, mismatch)
  ELSE BadObject(m, mismatch, e0)

\* The value val of member key has been scanned: store it.
MemberValue(s, key, val, m, mismatch) ==
  IF ~val.ok THEN BadObject(m, mismatch, val.next)
  ELSE MemberEnd(s, SkipSpace(s, val.next), MapSet(m, key, val.str),
                 mismatch \/ val.kind # "string")

\* After the key, at c0: the colon, then the value.
MemberColon(s, key, c0, m, mismatch) ==
  IF c0 > Len(s) \/ s[c0] # ":" THEN BadObject(m, mismatch, c0)
  ELSE MemberValue(s, key, ScanValue(s, SkipSpace(s, c0 + 1)), m, mismatch)

\* The key literal has been scanned.
MemberKey(s, key, m, mismatch) ==
  IF ~key.ok THEN BadObject(m, mismatch, key.next)
  ELSE MemberColon(s, key.str, SkipSpace(s, key.next), m, mismatch)

\* At k0 a member begins with its key.
MemberBegin(s, k0, m, mismatch) ==
  IF k0 > Len(s) \/ s[k0] # "\"" THEN BadObject(m, mismatch, k0)
  ELSE MemberKey(s, ScanString(s, k0 + 1, << >>), m, mismatch)

ScanMembers(s, i, m, mismatch) == MemberBegin(s, SkipSpace(s, i), m, mismatch)

ObjectTop(r) ==
  [ok |-> r.ok, kind |-> "object", m |-> r.m, mismatch |-> r.mismatch, next |-> r.next]
ValueTop(v) ==
  [ok |-> v.ok, kind |-> v.kind, m |-> EmptyMap, mismatch |-> FALSE, next |-> v.next]

\* After the opening brace, at j: an empty object or its members.
ScanObject(s, j) ==
  IF j <= Len(s) /\ s[j] = "}"
  THEN ObjectTop([ok |-> TRUE, m |-> EmptyMap, mismatch |-> FALSE, next |-> j + 1])
  ELSE ObjectTop(ScanMembers(s, j, EmptyMap, FALSE))

\* The top-level value starting at i: [ok, kind, m, mismatch, next].
ScanTopAt(s, i) ==
  IF i > Len(s) THEN ValueTop(NoValue(i))
  ELSE IF s[i] = "{" THEN ScanObject(s, SkipSpace(s, i + 1))
  ELSE ValueTop(ScanValue(s, i))

ScanTop(s) == ScanTopAt(s, SkipSpace(s, 1))

\* config with the entries of m stored into it.
Merge(config, m) ==
  [k \in DOMAIN config \cup DOMAIN m |-> IF k \in DOMAIN m THEN m[k] ELSE config[k]]

\* The outcome of decoding the scanned value top of data into config.
Decoded(data, top, config) ==
  IF ~top.ok \/ SkipSpace(data, top.next) <= Len(data)
  THEN [err |-> "SyntaxError", config |-> config]
  ELSE IF top.kind # "object" THEN [err |-> "UnmarshalTypeError", config |-> config]
  ELSE IF top.mismatch THEN [err |-> "UnmarshalTypeError", config |-> Merge(config, top.m)]
  ELSE [err |-> "nil", config |-> Merge(config, top.m)]

\* json.Unmarshal(data, &config): [err, config]. The input is validated as a
\* whole first (a syntax error leaves config untouched); then the entries are
\* stored into config, and a value of the wrong type is reported at the end.
Unmarshal(data, config) == Decoded(data, ScanTop(data), config)

(***************************************************************************)
(* The provider's side: secrets as text                                    *)
(***************************************************************************)
Quoted(str) == << "\"" >> \o str \o << "\"" >>

\* The members of bundle b for the keys in ks, comma separated.
RECURSIVE MarshalMembers(_, _)
MarshalMembers(b, ks) ==
  IF ks = {} THEN << >>
  ELSE LET k == CHOOSE x \in ks : TRUE
           rest == ks \ {k}
       IN  Quoted(k) \o << ":" >> \o Quoted(b[k])
             \o (IF rest = {} THEN << >> ELSE << "," >> \o MarshalMembers(b, rest))

\* The JSON object text of a bundle.
Marshal(b) == << "{" >> \o MarshalMembers(b, DOMAIN b) \o << "}" >>

(***************************************************************************)
(* Bounds and program constants                                            *)
(***************************************************************************)
\* context.WithTimeout(ctx, 10*time.Second)
TimeoutSeconds == 10
\* The longest a request without a deadline is followed while unanswered.
MaxWait == 12
\* The calls the single caller of Spec makes one after another.
MaxCalls == 2

Callers == {"c1", "c2"}

\* A nil *string (atoms) and a nil *string whose text is a character sequence.
Nil == "<nil>"
NilString == << "<nil>" >>

(***************************************************************************)
(* What the callers pass and what the provider answers                     *)
(***************************************************************************)
SecretNames == {"prod/app"}
Fields == {<< "A" >>, << "Z" >>}

bX == (<< "X" >> :> << "y" >>)
bAB == (<< "A" >> :> << "1" >>) @@ (<< "B" >> :> << "2" >>)
bBA == (<< "A" >> :> << "2" >>) @@ (<< "B" >> :> << "1" >>)
bBad == (<< "=" >> :> << >>) @@ (<< "A" >> :> << "3" >>)
bEmpty == EmptyMap

\* The bundles a stored secret holds: 9, 17, 17, 16 and 2 bytes of JSON.
Bundles == {bX, bAB, bBA, bBad, bEmpty}

\* Secrets that are no JSON object of strings: cut short, a number for a
\* value, no text at all, a top-level string.
Malformed ==
  { << "{", "\"", "X", "\"", ":" >>,
    << "{", "\"", "X", "\"", ":", "1", "}" >>,
    << >>,
    << "\"", "y", "\"" >> }

Texts == {Marshal(b) : b \in Bundles} \cup Malformed

\* Binary payloads that are no base64: padding missing, outside the alphabet.
NotBase64 == { << "e", "3", "0" >>, << "!", "!", "!", "!" >> }

ProviderErrors == {"ResourceNotFoundException", "InternalServiceError"}

\* GetSecretValueOutput with the call's error: exactly one of SecretString,
\* SecretBinary is populated on success.
SecretResponses ==
  [err : ProviderErrors, SecretString : {NilString}, SecretBinary : {<< >>}]
    \cup [err : {"nil"}, SecretString : Texts, SecretBinary : {<< >>}]
    \cup [err : {"nil"}, SecretString : {NilString},
          SecretBinary : {EncodeStd(t) : t \in Texts} \cup NotBase64]

QueueNames == {"orders"}
QueueUrls == {"https://sqs.us-east-1.amazonaws.com/1/orders"}

\* GetQueueUrlOutput with the call's error: no URL comes with an error.
QueueUrlResponses ==
  [err : {"AWS.SimpleQueueService.NonExistentQueue"}, QueueUrl : {Nil}]
    \cup [err : {"nil"}, QueueUrl : QueueUrls]

Payloads == {"hello"}

\* map[string]interface{}: each value with its Go type.
AttributeMaps ==
  { [k \in {} |-> [type |-> "string", text |-> ""]],
    ("source" :> [type |-> "string", text |-> "web"]),
    ("retries" :> [type |-> "int", text |-> "5"]) }

\* SendMessageOutput with the call's error.
SendResponses ==
  [err : {"InvalidMessageContents"}, MessageId : {Nil}]
    \cup [err : {"nil"}, MessageId : {"m-1", Nil}]

\* The local files: path -> content.
Files == ("/tmp/report.csv" :> << "a", ",", "b" >>)
Paths == {"/tmp/report.csv", "/tmp/missing.csv"}

BucketNames ==
  { << "a", "r", "n", ":", "a", "w", "s", ":", "s", "3", ":", ":", ":",
       "m", "y", "-", "b", "u", "c", "k", "e", "t" >>,
    << "m", "y", "-", "b", "u", "c", "k", "e", "t" >>,
    << "x", ":", "b" >>,
    << "b", ":" >>,
    << ":", "b", ":", "c" >> }
ObjectKeys == {"reports/r.csv"}
ContentTypes == {"text/csv"}

PutObjectResponses == [err : {"nil", "NoSuchBucket"}]

\* What the SDK returns when the request's context is done before an answer.
Canceled == "RequestCanceled"

(***************************************************************************)
(* The handlers' computations                                              *)
(***************************************************************************)
\* config[value]: the zero value "" for a missing key.
Lookup(config, value) == IF value \in DOMAIN config THEN config[value] ELSE << >>

\* string(decodedBinarySecretBytes[:len]) of a decode.
DecodedString(decoded) == SubSeq(decoded.dst, 1, decoded.n)

\* What GetSecret and GetSingleSecret take from the response:
\* secretString, and decodedBinarySecret, which is printed and not used again.
SecretStrings(result) ==
  IF result.SecretString # NilString
  THEN [secretString |-> result.SecretString, decodedBinarySecret |-> << >>]
  ELSE [secretString |-> << >>,
        decodedBinarySecret |-> DecodedString(Decode(result.SecretBinary))]

\* return config, nil: the error of Unmarshal is dropped.
DropError(u) == [config |-> u.config, err |-> "nil"]

\* GetSecret parsing the decoded binary instead of the string payload.
GetSecretResultFromBinary(result) ==
  IF result.err # "nil" THEN [config |-> EmptyMap, err |-> result.err]
  ELSE DropError(Unmarshal(SecretStrings(result).decodedBinarySecret, EmptyMap))

\* GetSecret after the provider call: (config, err).
GetSecretResult(result) ==
  IF result.err # "nil" THEN [config |-> EmptyMap, err |-> result.err]
  ELSE DropError(Unmarshal(SecretStrings(result).secretString, EmptyMap))

\* The lookup reporting a key the bundle does not hold as an error.
FieldOfMissingIsError(u, value) ==
  IF value \in DOMAIN u.config
  THEN [val |-> u.config[value], err |-> "nil"]
  ELSE [val |-> << >>, err |-> "KeyNotFound"]

\* return config[value], nil.
FieldOf(u, value) == [val |-> Lookup(u.config, value), err |-> "nil"]

\* GetSingleSecret parsing the decoded binary instead of the string payload.
GetSingleSecretResultFromBinary(result, value) ==
  IF result.err # "nil" THEN [val |-> Lookup(EmptyMap, value), err |-> result.err]
  ELSE FieldOf(Unmarshal(SecretStrings(result).decodedBinarySecret, EmptyMap), value)

\* GetSingleSecret after the provider call: (config[value], err).
GetSingleSecretResult(result, value) ==
  IF result.err # "nil" THEN [val |-> Lookup(EmptyMap, value), err |-> result.err]
  ELSE FieldOf(Unmarshal(SecretStrings(result).secretString, EmptyMap), value)

\* return config, err after Unmarshal.
KeepError(u) == [config |-> u.config, err |-> u.err]

\* GrabSecret's binary branch: a decode error is returned; otherwise the
\* whole buffer is parsed, not its first n bytes.
GrabBinary(decoded) ==
  IF decoded.err # "nil" THEN [config |-> EmptyMap, err |-> decoded.err]
  ELSE KeepError(Unmarshal(decoded.dst, EmptyMap))

\* GrabSecret after the provider call: (config, err).
GrabSecretResult(result) ==
  IF result.err # "nil" THEN [config |-> EmptyMap, err |-> result.err]
  ELSE IF result.SecretString # NilString
       THEN KeepError(Unmarshal(result.SecretString, EmptyMap))
       ELSE GrabBinary(Decode(result.SecretBinary))

\* syscall.Setenv: the error of setting key to value.
Setenv(key, value) ==
  IF Len(key) = 0 \/ Has(key, "=") \/ Has(key, NUL) \/ Has(value, NUL)
  THEN "EINVAL" ELSE "nil"

\* SendStringMessageToSqs without the check of the message identifier.
SendStringMessageToSqsResultNoCheck(result, payload) ==
  IF result.err # "nil" THEN [id |-> Nil, err |-> result.err]
  ELSE [id |-> result.MessageId, err |-> "nil"]

\* SendStringMessageToSqs after the provider call: (MessageId, err).
SendStringMessageToSqsResult(result, payload) ==
  IF result.err # "nil" THEN [id |-> Nil, err |-> result.err]
  ELSE IF result.MessageId = Nil
       THEN [id |-> result.MessageId, err |-> "Message was not sent. Payload" \o payload]
       ELSE [id |-> result.MessageId, err |-> "nil"]

\* fmt.Sprintf("%s", v) of an attribute value.
Sprintf_s(v) ==
  IF v.type = "string" THEN v.text
  ELSE "%!s(" \o v.type \o "=" \o v.text \o ")"

\* The attribute map in the provider's format.
MessageAttributes(attributes) ==
  [k \in DOMAIN attributes |->
     [DataType |-> "String", StringValue |-> Sprintf_s(attributes[k])]]

\* SendStringMessageWithAttributesToSqs after the provider call.
SendStringMessageWithAttributesToSqsResult(result, payload) ==
  IF result.err # "nil" THEN [id |-> Nil, err |-> result.err]
  ELSE IF result.MessageId = Nil
       THEN [id |-> result.MessageId, err |-> "Message was not sent. Payload" \o payload]
       ELSE [id |-> result.MessageId, err |-> "nil"]

\* strings.Split(s, sep) for a one-character sep: the parts, cur the part
\* being read from position i.
RECURSIVE SplitFrom(_, _, _, _)
SplitFrom(s, sep, i, cur) ==
  IF i > Len(s) THEN << cur >>
  ELSE IF s[i] = sep THEN << cur >> \o SplitFrom(s, sep, i + 1, << >>)
  ELSE SplitFrom(s, sep, i + 1, Append(cur, s[i]))

Split(s, sep) == SplitFrom(s, sep, 1, << >>)

\* The clean-up taking the first part after the qualifier, not the last.
CleanBucketNameFirst(bucketName) ==
  IF Has(bucketName, ":")
  THEN LET bucketParts == Split(bucketName, ":")
       IN  bucketParts[2]
  ELSE bucketName

\* UploadFileToS3's clean-up of the bucket name.
CleanBucketName(bucketName) ==
  IF Has(bucketName, ":")
  THEN LET bucketParts == Split(bucketName, ":")
       IN  bucketParts[Len(bucketParts)]
  ELSE bucketName

(***************************************************************************)
(* State                                                                   *)
(***************************************************************************)
VARIABLES
  pc,        \* per caller: "idle", "wait", "reply", "range", "done", "panic"
  op,        \* per caller: the method being run
  arg,       \* per caller: its arguments
  ctx,       \* per caller: the call's timeout context:
             \*   "none", "live", "expired", "cancelled"
  elapsed,   \* per caller: seconds the request in flight has been unanswered
  sent,      \* per caller: the provider requests the call has issued
  resp,      \* per caller: what the provider call returned
  config,    \* per caller: the bundle being applied
  todo,      \* per caller: the keys the range loop has not visited
  ret,       \* per caller: what the call returned
  file,      \* per caller: the file handle: "none", "open", "closed"
  env,       \* the process environment: name -> value
  callsLeft  \* per caller: the calls it may still start

vars == << pc, op, arg, ctx, elapsed, sent, resp, config, todo, ret, file, env,
           callsLeft >>

NoArg == [none |-> TRUE]
NoResp == [none |-> TRUE]
NoRet == [none |-> TRUE]

Start(budget) ==
  /\ pc = [c \in Callers |-> "idle"]
  /\ op = [c \in Callers |-> "none"]
  /\ arg = [c \in Callers |-> NoArg]
  /\ ctx = [c \in Callers |-> "none"]
  /\ elapsed = [c \in Callers |-> 0]
  /\ sent = [c \in Callers |-> << >>]
  /\ resp = [c \in Callers |-> NoResp]
  /\ config = [c \in Callers |-> EmptyMap]
  /\ todo = [c \in Callers |-> {}]
  /\ ret = [c \in Callers |-> NoRet]
  /\ file = [c \in Callers |-> "none"]
  /\ env = EmptyMap
  /\ callsLeft = budget

\* One caller making MaxCalls calls one after another.
Init == Start([c \in Callers |-> IF c = "c1" THEN MaxCalls ELSE 0])

\* Every caller making one call, at the same time.
InitConcurrent == Start([c \in Callers |-> 1])

\* A panic that nothing recovers ends the process.
Crashed == \E c \in Callers : pc[c] = "panic"

SecretOps == {"GetSecret", "GrabSecret", "GetSingleSecret",
              "SetSecretToEnvironmentVariables"}

\* The responses the provider may give to the request of operation o.
ResponsesOf(o) ==
  IF o \in SecretOps THEN SecretResponses
  ELSE IF o = "GetQueueUrl" THEN QueueUrlResponses
  ELSE IF o = "UploadFileToS3" THEN PutObjectResponses
  ELSE SendResponses

\* What the SDK call of operation o returns when its context is done.
CanceledOf(o) ==
  IF o \in SecretOps
  THEN [err |-> Canceled, SecretString |-> NilString, SecretBinary |-> << >>]
  ELSE [err |-> Canceled]

(***************************************************************************)
(* Entering a method: up to the provider call                              *)
(***************************************************************************)
\* Caller c enters method o with arguments a and issues request r, under a
\* 10-second context when deadline is TRUE.
Enter(c, o, a, r, deadline) ==
  /\ ~Crashed
  /\ pc[c] \in {"idle", "done"}
  /\ callsLeft[c] > 0
  /\ callsLeft' = [callsLeft EXCEPT ![c] = @ - 1]
  /\ pc' = [pc EXCEPT ![c] = "wait"]
  /\ op' = [op EXCEPT ![c] = o]
  /\ arg' = [arg EXCEPT ![c] = a]
  /\ ctx' = [ctx EXCEPT ![c] = IF deadline THEN "live" ELSE "none"]
  /\ elapsed' = [elapsed EXCEPT ![c] = 0]
  /\ sent' = [sent EXCEPT ![c] = << r >>]
  /\ resp' = [resp EXCEPT ![c] = NoResp]
  /\ config' = [config EXCEPT ![c] = EmptyMap]
  /\ todo' = [todo EXCEPT ![c] = {}]
  /\ ret' = [ret EXCEPT ![c] = NoRet]
  /\ UNCHANGED env

GetSecretValueInput(secretName) ==
  [api |-> "GetSecretValue", SecretId |-> secretName, VersionStage |-> "AWSCURRENT"]

CallGetSecret(c) ==
  \E secretName \in SecretNames :
    /\ Enter(c, "GetSecret", [secretName |-> secretName],
             GetSecretValueInput(secretName), TRUE)
    /\ file' = [file EXCEPT ![c] = "none"]

\* GrabSecret issuing its request with context.Background().
CallGrabSecretNoDeadline(c) ==
  \E secretName \in SecretNames :
    /\ Enter(c, "GrabSecret", [secretName |-> secretName],
             GetSecretValueInput(secretName), FALSE)
    /\ file' = [file EXCEPT ![c] = "none"]

CallGrabSecret(c) ==
  \E secretName \in SecretNames :
    /\ Enter(c, "GrabSecret", [secretName |-> secretName],
             GetSecretValueInput(secretName), TRUE)
    /\ file' = [file EXCEPT ![c] = "none"]

CallGetSingleSecret(c) ==
  \E secretName \in SecretNames, value \in Fields :
    /\ Enter(c, "GetSingleSecret", [secretName |-> secretName, value |-> value],
             GetSecretValueInput(secretName), TRUE)
    /\ file' = [file EXCEPT ![c] = "none"]

\* Both SetSecretToEnvironmentVariables: the one that fetches with GetSecret
\* and the one that fetches with GrabSecret.
CallSetSecretToEnvironmentVariables(c) ==
  \E secretName \in SecretNames, fetch \in {"GetSecret", "GrabSecret"} :
    /\ Enter(c, "SetSecretToEnvironmentVariables",
             [secretName |-> secretName, fetch |-> fetch],
             GetSecretValueInput(secretName), TRUE)
    /\ file' = [file EXCEPT ![c] = "none"]

CallGetQueueUrl(c) ==
  \E v \in QueueNames :
    /\ Enter(c, "GetQueueUrl", [v |-> v],
             [api |-> "GetQueueUrl", QueueName |-> v], FALSE)
    /\ file' = [file EXCEPT ![c] = "none"]

CallSendStringMessageToSqs(c) ==
  \E payload \in Payloads, qURL \in QueueUrls :
    /\ Enter(c, "SendStringMessageToSqs", [payload |-> payload, qURL |-> qURL],
             [api |-> "SendMessage", MessageBody |-> payload, QueueUrl |-> qURL],
             FALSE)
    /\ file' = [file EXCEPT ![c] = "none"]

CallSendStringMessageWithAttributesToSqs(c) ==
  \E payload \in Payloads, qURL \in QueueUrls, attributes \in AttributeMaps :
    /\ Enter(c, "SendStringMessageWithAttributesToSqs",
             [payload |-> payload, qURL |-> qURL, attributes |-> attributes],
             [api |-> "SendMessage", MessageBody |-> payload,
              MessageAttributes |-> MessageAttributes(attributes),
              QueueUrl |-> qURL],
             FALSE)
    /\ file' = [file EXCEPT ![c] = "none"]

\* The request UploadFileToS3 builds from an opened file.
PutObjectInput(content, bucketName, destinationName, contentType) ==
  [api |-> "PutObject",
   Bucket |-> CleanBucketName(bucketName),
   Key |-> destinationName,
   ACL |-> "private",
   Body |-> content,
   ContentLength |-> Len(content),
   ContentType |-> contentType,
   ContentDisposition |-> "attachment",
   ServerSideEncryption |-> "AES256"]

\* UploadFileToS3 up to the provider call; a file that cannot be opened ends
\* the call at once.
CallUploadFileToS3(c) ==
  \E path \in Paths, bucketName \in BucketNames,
     destinationName \in ObjectKeys, contentType \in ContentTypes :
    LET a == [path |-> path, bucketName |-> bucketName,
              destinationName |-> destinationName, contentType |-> contentType]
    IN
    IF path \in DOMAIN Files
    THEN /\ Enter(c, "UploadFileToS3", a,
                  PutObjectInput(Files[path], bucketName, destinationName, contentType),
                  TRUE)
         /\ file' = [file EXCEPT ![c] = "open"]
    ELSE /\ ~Crashed
         /\ pc[c] \in {"idle", "done"}
         /\ callsLeft[c] > 0
         /\ callsLeft' = [callsLeft EXCEPT ![c] = @ - 1]
         /\ pc' = [pc EXCEPT ![c] = "done"]
         /\ op' = [op EXCEPT ![c] = "UploadFileToS3"]
         /\ arg' = [arg EXCEPT ![c] = a]
         /\ ctx' = [ctx EXCEPT ![c] = "none"]
         /\ elapsed' = [elapsed EXCEPT ![c] = 0]
         /\ sent' = [sent EXCEPT ![c] = << >>]
         /\ resp' = [resp EXCEPT ![c] = NoResp]
         /\ config' = [config EXCEPT ![c] = EmptyMap]
         /\ todo' = [todo EXCEPT ![c] = {}]
         /\ ret' = [ret EXCEPT ![c] = [err |-> "ENOENT"]]
         /\ file' = [file EXCEPT ![c] = "none"]
         /\ UNCHANGED env

(***************************************************************************)
(* The provider call: time passes, the provider answers, the deadline      *)
(***************************************************************************)
\* A second passes with the request unanswered.
Tick(c) ==
  /\ ~Crashed
  /\ pc[c] = "wait"
  /\ elapsed[c] < (IF ctx[c] = "live" THEN TimeoutSeconds ELSE MaxWait)
  /\ elapsed' = [elapsed EXCEPT ![c] = @ + 1]
  /\ UNCHANGED << pc, op, arg, ctx, sent, resp, config, todo, ret, file, env,
                  callsLeft >>

\* The provider answers before the context (if any) is done.
ProviderAnswer(c) ==
  /\ ~Crashed
  /\ pc[c] = "wait"
  /\ ctx[c] = "live" => elapsed[c] < TimeoutSeconds
  /\ \E r \in ResponsesOf(op[c]) : resp' = [resp EXCEPT ![c] = r]
  /\ pc' = [pc EXCEPT ![c] = "reply"]
  /\ elapsed' = [elapsed EXCEPT ![c] = 0]
  /\ UNCHANGED << op, arg, ctx, sent, config, todo, ret, file, env, callsLeft >>

\* The context's deadline passes: the request in flight is cancelled and the
\* SDK call returns the cancellation error.
Deadline(c) ==
  /\ ~Crashed
  /\ pc[c] = "wait"
  /\ ctx[c] = "live"
  /\ elapsed[c] = TimeoutSeconds
  /\ resp' = [resp EXCEPT ![c] = CanceledOf(op[c])]
  /\ ctx' = [ctx EXCEPT ![c] = "expired"]
  /\ pc' = [pc EXCEPT ![c] = "reply"]
  /\ elapsed' = [elapsed EXCEPT ![c] = 0]
  /\ UNCHANGED << op, arg, sent, config, todo, ret, file, env, callsLeft >>

(***************************************************************************)
(* After the provider call: the rest of each method                        *)
(***************************************************************************)
\* The deferred calls of a returning method: cancelFn() and file.Close().
Deferred(c) ==
  /\ ctx' = [ctx EXCEPT ![c] = IF @ = "none" THEN "none" ELSE "cancelled"]
  /\ file' = [file EXCEPT ![c] = IF @ = "open" THEN "closed" ELSE @]

\* Caller c's method o returns r.
Return(c, o, r) ==
  /\ ~Crashed
  /\ pc[c] = "reply"
  /\ op[c] = o
  /\ ret' = [ret EXCEPT ![c] = r]
  /\ pc' = [pc EXCEPT ![c] = "done"]
  /\ Deferred(c)
  /\ UNCHANGED << op, arg, elapsed, sent, resp, config, todo, env, callsLeft >>

\* UploadFileToS3 closing the file only after a successful upload.
UploadFileToS3ReturnNoDefer(c) ==
  /\ ~Crashed
  /\ pc[c] = "reply"
  /\ op[c] = "UploadFileToS3"
  /\ ret' = [ret EXCEPT ![c] = [err |-> resp[c].err]]
  /\ pc' = [pc EXCEPT ![c] = "done"]
  /\ ctx' = [ctx EXCEPT ![c] = "cancelled"]
  /\ file' = [file EXCEPT ![c] = IF resp[c].err = "nil" THEN "closed" ELSE @]
  /\ UNCHANGED << op, arg, elapsed, sent, resp, config, todo, env, callsLeft >>

\* The pair (config, err) as a method returns it.
Returned(r) == [val |-> r.config, err |-> r.err]

\* GetSecret issuing the request once more when the provider call failed.
GetSecretReturnRetry(c) ==
  IF pc[c] = "reply" /\ op[c] = "GetSecret" /\ resp[c].err # "nil" /\ Len(sent[c]) < 2
  THEN /\ ~Crashed
       /\ pc' = [pc EXCEPT ![c] = "wait"]
       /\ sent' = [sent EXCEPT ![c] = Append(@, @[1])]
       /\ resp' = [resp EXCEPT ![c] = NoResp]
       /\ ctx' = [ctx EXCEPT ![c] = "live"]
       /\ UNCHANGED << op, arg, elapsed, config, todo, ret, file, env, callsLeft >>
  ELSE Return(c, "GetSecret", Returned(GetSecretResult(resp[c])))

GetSecretReturn(c) == Return(c, "GetSecret", Returned(GetSecretResult(resp[c])))

GrabSecretReturn(c) == Return(c, "GrabSecret", Returned(GrabSecretResult(resp[c])))

GetSingleSecretReturn(c) ==
  Return(c, "GetSingleSecret", GetSingleSecretResult(resp[c], arg[c].value))

\* SetSecretToEnvironmentVariables with r what its fetch returned.
Fetched(c, r) ==
  IF r.err # "nil"
  THEN Return(c, "SetSecretToEnvironmentVariables", [err |-> r.err])
  ELSE /\ config' = [config EXCEPT ![c] = r.config]
       /\ todo' = [todo EXCEPT ![c] = DOMAIN r.config]
       /\ pc' = [pc EXCEPT ![c] = "range"]
       /\ Deferred(c)
       /\ UNCHANGED << op, arg, elapsed, sent, resp, ret, env, callsLeft >>

\* SetSecretToEnvironmentVariables once its fetch has returned: the error is
\* returned, or the range over config starts.
SetSecretFetched(c) ==
  /\ ~Crashed
  /\ pc[c] = "reply"
  /\ op[c] = "SetSecretToEnvironmentVariables"
  /\ Fetched(c, IF arg[c].fetch = "GetSecret"
                 THEN GetSecretResult(resp[c]) ELSE GrabSecretResult(resp[c]))

\* env without the variables named in keys.
Unset(e, keys) == [k \in DOMAIN e \ keys |-> e[k]]

\* The range undoing what it has set when a variable cannot be set.
RangeStepRollback(c) ==
  /\ ~Crashed
  /\ pc[c] = "range"
  /\ \E key \in todo[c] :
       LET value == config[c][key]
           err == Setenv(key, value)
       IN
       IF err # "nil"
       THEN /\ ret' = [ret EXCEPT ![c] = [err |-> err]]
            /\ pc' = [pc EXCEPT ![c] = "done"]
            /\ env' = Unset(env, DOMAIN config[c])
            /\ UNCHANGED todo
       ELSE /\ env' = MapSet(env, key, value)
            /\ todo' = [todo EXCEPT ![c] = @ \ {key}]
            /\ UNCHANGED << pc, ret >>
  /\ UNCHANGED << op, arg, ctx, elapsed, sent, resp, config, file, callsLeft >>

\* The range going on to the next key when a variable cannot be set.
RangeStepKeepGoing(c) ==
  /\ ~Crashed
  /\ pc[c] = "range"
  /\ \E key \in todo[c] :
       LET value == config[c][key]
           err == Setenv(key, value)
       IN
       IF err # "nil"
       THEN /\ todo' = [todo EXCEPT ![c] = @ \ {key}]
            /\ UNCHANGED << env, pc, ret >>
       ELSE /\ env' = MapSet(env, key, value)
            /\ todo' = [todo EXCEPT ![c] = @ \ {key}]
            /\ UNCHANGED << pc, ret >>
  /\ UNCHANGED << op, arg, ctx, elapsed, sent, resp, config, file, callsLeft >>

\* One iteration of the range over config, the key in the order the map
\* yields it: the variable is set, or the error is returned.
RangeStep(c) ==
  /\ ~Crashed
  /\ pc[c] = "range"
  /\ \E key \in todo[c] :
       LET value == config[c][key]
           err == Setenv(key, value)
       IN
       IF err # "nil"
       THEN /\ ret' = [ret EXCEPT ![c] = [err |-> err]]
            /\ pc' = [pc EXCEPT ![c] = "done"]
            /\ UNCHANGED << env, todo >>
       ELSE /\ env' = MapSet(env, key, value)
            /\ todo' = [todo EXCEPT ![c] = @ \ {key}]
            /\ UNCHANGED << pc, ret >>
  /\ UNCHANGED << op, arg, ctx, elapsed, sent, resp, config, file, callsLeft >>

\* The range is over: return nil.
RangeDone(c) ==
  /\ ~Crashed
  /\ pc[c] = "range"
  /\ todo[c] = {}
  /\ ret' = [ret EXCEPT ![c] = [err |-> "nil"]]
  /\ pc' = [pc EXCEPT ![c] = "done"]
  /\ UNCHANGED << op, arg, ctx, elapsed, sent, resp, config, todo, file, env,
                  callsLeft >>

\* GetQueueUrl after the provider call: the error is printed, and the URL
\* pointer is dereferenced whatever the error.
GetQueueUrlReturn(c) ==
  /\ ~Crashed
  /\ pc[c] = "reply"
  /\ op[c] = "GetQueueUrl"
  /\ IF resp[c].QueueUrl = Nil
     THEN /\ pc' = [pc EXCEPT ![c] = "panic"]
          /\ UNCHANGED << op, arg, ctx, elapsed, sent, resp, config, todo, ret,
                          file, env, callsLeft >>
     ELSE Return(c, "GetQueueUrl", [val |-> resp[c].QueueUrl])

SendStringMessageToSqsReturn(c) ==
  Return(c, "SendStringMessageToSqs",
         SendStringMessageToSqsResult(resp[c], arg[c].payload))

SendStringMessageWithAttributesToSqsReturn(c) ==
  Return(c, "SendStringMessageWithAttributesToSqs",
         SendStringMessageWithAttributesToSqsResult(resp[c], arg[c].payload))

UploadFileToS3Return(c) ==
  Return(c, "UploadFileToS3", [err |-> resp[c].err])

(***************************************************************************)
(* Specifications                                                          *)
(***************************************************************************)
Next ==
  \E c \in Callers :
    \/ CallGetSecret(c)
    \/ CallGrabSecret(c)
    \/ CallGetSingleSecret(c)
    \/ CallSetSecretToEnvironmentVariables(c)
    \/ CallGetQueueUrl(c)
    \/ CallSendStringMessageToSqs(c)
    \/ CallSendStringMessageWithAttributesToSqs(c)
    \/ CallUploadFileToS3(c)
    \/ Tick(c)
    \/ ProviderAnswer(c)
    \/ Deadline(c)
    \/ GetSecretReturn(c)
    \/ GrabSecretReturn(c)
    \/ GetSingleSecretReturn(c)
    \/ SetSecretFetched(c)
    \/ RangeStep(c)
    \/ RangeDone(c)
    \/ GetQueueUrlReturn(c)
    \/ SendStringMessageToSqsReturn(c)
    \/ SendStringMessageWithAttributesToSqsReturn(c)
    \/ UploadFileToS3Return(c)

\* One caller, its calls one after another.
Spec == Init /\ [][Next]_vars

\* Two callers, one call each, their steps interleaved.
SpecConcurrent == InitConcurrent /\ [][Next]_vars

(***************************************************************************)
(* Properties                                                              *)
(***************************************************************************)
FetchOps == {"GetSecret", "GrabSecret"}

\* Caller c's fetch of a bundle has returned after a successful provider call.
FetchReturned(c) == pc[c] = "done" /\ op[c] \in FetchOps /\ resp[c].err = "nil"

\* The response carries the base64 encoding of text t as its binary payload.
BinaryOf(r, t) == r.SecretString = NilString /\ r.SecretBinary = EncodeStd(t)

\* C1: a binary payload that is the base64 encoding of a JSON object of
\* strings yields no error and exactly the entries of that object, whatever
\* the length of the decoded text.
C1_BinaryPayloadDecoded ==
  \A c \in Callers : \A b \in Bundles :
    FetchReturned(c) /\ BinaryOf(resp[c], Marshal(b))
      => ret[c].err = "nil" /\ ret[c].val = b

\* The payload of response r is no JSON object of strings, or no base64 of one.
Undecodable(r) ==
  IF r.SecretString # NilString
  THEN r.SecretString \in Malformed
  ELSE r.SecretBinary \in NotBase64 \cup {EncodeStd(t) : t \in Malformed}

\* C2: a payload that cannot be decoded yields a non-nil error, never a nil
\* error with an empty or partial bundle.
C2_DecodeFailureIsError ==
  \A c \in Callers :
    FetchReturned(c) /\ Undecodable(resp[c]) => ret[c].err # "nil"

\* C3: when the queue-URL lookup fails, GetQueueUrl completes normally and
\* returns the empty string; it does not abort.
C3_LookupErrorReturnsEmpty ==
  \A c \in Callers :
    op[c] = "GetQueueUrl" /\ pc[c] \in {"done", "panic"} /\ resp[c].err # "nil"
      => pc[c] = "done" /\ ret[c] = [val |-> ""]

SetSecretCall(c) == op[c] = "SetSecretToEnvironmentVariables"

\* The keys of its bundle that caller c's range has set.
Visited(c) == DOMAIN config[c] \ todo[c]

\* The keys of bundle b that cannot be environment variables.
Unsettable(b) == {k \in DOMAIN b : Setenv(k, b[k]) # "nil"}

\* A call that returned the error of Setenv: the key that failed is still
\* unvisited, and every key visited before holds the bundle's value.
C4_AfterFailure ==
  \A c \in Callers :
    SetSecretCall(c) /\ pc[c] = "done" /\ ret[c].err = "EINVAL"
      => /\ todo[c] \cap Unsettable(config[c]) # {}
         /\ \A k \in Visited(c) : k \in DOMAIN env /\ env[k] = config[c][k]

\* One step of the range: a key that can be set is set and nothing else is
\* touched; or the error is returned at once with the environment as it was;
\* or, every key visited, nil is returned.
C4_RangeStep ==
  \A c \in Callers :
    SetSecretCall(c) /\ pc[c] = "range" /\ << pc'[c], todo'[c] >> # << pc[c], todo[c] >>
      => \/ /\ pc'[c] = "range"
            /\ \E k \in todo[c] \ Unsettable(config[c]) :
                 /\ todo'[c] = todo[c] \ {k}
                 /\ env' = MapSet(env, k, config[c][k])
         \/ /\ pc'[c] = "done"
            /\ ret'[c] = [err |-> "EINVAL"]
            /\ todo[c] \cap Unsettable(config[c]) # {}
            /\ todo'[c] = todo[c]
            /\ env' = env
         \/ /\ pc'[c] = "done"
            /\ ret'[c] = [err |-> "nil"]
            /\ todo[c] = {}
            /\ env' = env

\* C4: when setting a variable fails, the call returns that error at once,
\* sets no key it had not yet visited, and the keys set before the failure
\* keep the bundle's value (no rollback), in whatever order the keys come.
C4_FailStopNoRollback == [] C4_AfterFailure /\ [][C4_RangeStep]_vars

\* A call failed on the key "=" after it had set A.
C4_Witness ==
  \E c \in Callers :
    /\ SetSecretCall(c) /\ pc[c] = "done" /\ ret[c].err = "EINVAL"
    /\ config[c] = bBad
    /\ todo[c] = {<< "=" >>}
    /\ << "A" >> \in DOMAIN env /\ env[<< "A" >>] = << "3" >>

AllReturned == \A c \in Callers : pc[c] = "done"

\* e after the keys ks of bundle b have been set.
Applied(e, b, ks) ==
  [k \in DOMAIN e \cup ks |-> IF k \in ks THEN b[k] ELSE e[k]]

\* The sets of keys a call of caller c may have set when run alone: all of
\* them, or, when one cannot be set, any of those that can.
MaySet(c) ==
  IF Unsettable(config[c]) = {} THEN {DOMAIN config[c]}
  ELSE SUBSET (DOMAIN config[c] \ Unsettable(config[c]))

\* The environments that running the callers' calls one after another, in
\* some order, can leave.
SerialEnvs ==
  { Applied(Applied(EmptyMap, config[c], k1), config[d], k2) :
      << c, d, k1, k2 >> \in
        { q \in Callers \X Callers \X (UNION {MaySet(x) : x \in Callers})
                 \X (UNION {MaySet(x) : x \in Callers}) :
            q[1] # q[2] /\ q[3] \in MaySet(q[1]) /\ q[4] \in MaySet(q[2]) } }

\* C5 as stated: whatever the interleaving, the environment the calls leave
\* is one that some one-after-another execution of the same calls leaves.
C5_Serializable == AllReturned => env \in SerialEnvs

\* What the environment holds and what the calls return: every variable set
\* holds the value that a call which visited it gives it, every key a call
\* visited is set, and a call returns nil exactly when it visited all its keys.
C5_Environment ==
  /\ \A k \in DOMAIN env :
       \E c \in Callers : k \in Visited(c) /\ env[k] = config[c][k]
  /\ \A c \in Callers : \A k \in Visited(c) : k \in DOMAIN env /\ k \notin Unsettable(config[c])
  /\ \A c \in Callers :
       SetSecretCall(c) /\ pc[c] = "done" /\ config[c] # EmptyMap
         => (ret[c].err = "nil" <=> todo[c] = {})

\* Everything of caller c's call but the environment.
Local(c) == << pc[c], op[c], arg[c], ctx[c], elapsed[c], sent[c], resp[c],
               config[c], todo[c], ret[c], file[c], callsLeft[c] >>

\* A step of one caller's call changes nothing of another caller's call.
C5_OwnStateOnly ==
  \A c, d \in Callers : c # d /\ Local(c)' # Local(c) => Local(d)' = Local(d)

\* C5: the calls share the process environment and nothing else; what the
\* environment holds is, variable by variable, what the calls that set it give
\* it, and need not be what a one-after-another execution leaves.
C5_SharedEnvironmentOnly == [] C5_Environment /\ [][C5_OwnStateOnly]_vars

\* Two calls applying {A:1, B:2} and {A:2, B:1} have both returned nil and
\* left A=1, B=1.
C5_Witness ==
  /\ AllReturned
  /\ \A c \in Callers : SetSecretCall(c) /\ ret[c] = [err |-> "nil"]
  /\ {config[c] : c \in Callers} = {bAB, bBA}
  /\ env = (<< "A" >> :> << "1" >>) @@ (<< "B" >> :> << "1" >>)

TimedOps == SecretOps \cup {"UploadFileToS3"}
QueueOps == {"GetQueueUrl", "SendStringMessageToSqs",
             "SendStringMessageWithAttributesToSqs"}

\* C6 as stated: every request in flight runs under a live 10-second context,
\* so none is unanswered for longer.
C6_EveryRequestTimed ==
  \A c \in Callers :
    pc[c] = "wait" => ctx[c] = "live" /\ elapsed[c] <= TimeoutSeconds

\* C6: the secret methods and UploadFileToS3 run their request under a
\* 10-second context of their own: the request is never unanswered for longer,
\* and when the deadline passes it is cancelled and the call returns the
\* cancellation error. GetQueueUrl and the two send methods run theirs under
\* no context.
C6_TimedRequests ==
  \A c \in Callers :
    /\ op[c] \in TimedOps /\ pc[c] = "wait"
         => ctx[c] = "live" /\ elapsed[c] <= TimeoutSeconds
    /\ op[c] \in TimedOps /\ pc[c] = "done" /\ resp[c] # NoResp /\ resp[c].err = Canceled
         => ctx[c] = "cancelled" /\ ret[c].err = Canceled
    /\ op[c] \in TimedOps /\ ctx[c] = "expired"
         => pc[c] = "reply" /\ resp[c].err = Canceled
    /\ op[c] \in QueueOps => ctx[c] = "none"

\* A timed call has returned the cancellation error after its deadline.
C6_Witness ==
  \E c \in Callers :
    /\ op[c] = "UploadFileToS3" /\ pc[c] = "done"
    /\ resp[c] = [err |-> Canceled]
    /\ ret[c] = [err |-> Canceled]

SendOps == {"SendStringMessageToSqs", "SendStringMessageWithAttributesToSqs"}

\* C7: a send returns an error when the provider call fails and when the
\* response has no message identifier; exactly one of identifier and error
\* is returned.
C7_IdentifierXorError ==
  \A c \in Callers :
    pc[c] = "done" /\ op[c] \in SendOps
      => /\ (ret[c].id # Nil) # (ret[c].err # "nil")
         /\ resp[c].err # "nil" => ret[c].err = resp[c].err
         /\ resp[c].err = "nil" /\ resp[c].MessageId = Nil => ret[c].err # "nil"
         /\ resp[c].err = "nil" /\ resp[c].MessageId # Nil => ret[c].id = resp[c].MessageId

\* A send whose provider call succeeded without an identifier returned an error.
C7_Witness ==
  \E c \in Callers :
    /\ pc[c] = "done" /\ op[c] = "SendStringMessageToSqs"
    /\ resp[c] = [err |-> "nil", MessageId |-> Nil]
    /\ ret[c].err = "Message was not sent. Payloadhello"

\* C8: when the provider request fails or times out, GetSecret, GrabSecret and
\* GetSingleSecret have issued one request, return the provider's error and
\* an empty bundle (the empty string).
C8_ProviderErrorUnchanged ==
  \A c \in Callers :
    /\ pc[c] = "done"
    /\ op[c] \in {"GetSecret", "GrabSecret", "GetSingleSecret"}
    /\ resp[c].err # "nil"
    => /\ ret[c].err = resp[c].err
       /\ ret[c].val = << >>
       /\ Len(sent[c]) = 1

\* GetSingleSecret returned the cancellation error and "" after its deadline.
C8_Witness ==
  \E c \in Callers :
    /\ pc[c] = "done" /\ op[c] = "GetSingleSecret"
    /\ resp[c].err = Canceled
    /\ ret[c] = [val |-> << >>, err |-> Canceled]
    /\ Len(sent[c]) = 1

\* C9: a string payload that is a JSON object of strings yields no error and
\* exactly the entries of that object.
C9_StringPayloadDecoded ==
  \A c \in Callers : \A b \in Bundles :
    FetchReturned(c) /\ resp[c].SecretString = Marshal(b)
      => ret[c].err = "nil" /\ ret[c].val = b

\* GrabSecret returned the two entries of {"A":"1","B":"2"}.
C9_Witness ==
  \E c \in Callers :
    /\ FetchReturned(c) /\ op[c] = "GrabSecret"
    /\ resp[c].SecretString = Marshal(bAB)
    /\ DOMAIN ret[c].val = {<< "A" >>, << "B" >>}
    /\ ret[c].val[<< "A" >>] = << "1" >> /\ ret[c].val[<< "B" >>] = << "2" >>

\* The positions of the colons in s.
Colons(s) == {i \in 1..Len(s) : s[i] = ":"}

\* s after its last colon; s itself when it has none.
AfterLastColon(s) ==
  IF Colons(s) = {} THEN s
  ELSE SubSeq(s, (CHOOSE i \in Colons(s) : \A j \in Colons(s) : j <= i) + 1, Len(s))

\* C10: the bucket sent is containerName after its last colon (containerName
\* itself when it has none); the key and the content type are sent unchanged.
C10_BucketAfterLastColon ==
  \A c \in Callers :
    op[c] = "UploadFileToS3" /\ Len(sent[c]) > 0
      => /\ Len(sent[c]) = 1
         /\ sent[c][1].Bucket = AfterLastColon(arg[c].bucketName)
         /\ sent[c][1].Key = arg[c].destinationName
         /\ sent[c][1].ContentType = arg[c].contentType

\* "arn:aws:s3:::my-bucket" was sent as "my-bucket".
C10_Witness ==
  \E c \in Callers :
    /\ op[c] = "UploadFileToS3" /\ pc[c] = "done" /\ ret[c] = [err |-> "nil"]
    /\ Len(arg[c].bucketName) = 22
    /\ sent[c][1].Bucket = << "m", "y", "-", "b", "u", "c", "k", "e", "t" >>

\* The stored secret of response r is the JSON of bundle b, as its string
\* payload or as its base64-encoded binary payload.
Carries(r, b) == r.SecretString = Marshal(b) \/ BinaryOf(r, Marshal(b))

\* C11: when the provider call succeeds and the bundle has no entry for the
\* requested field, GetSingleSecret returns the empty string and a nil error;
\* the bundle is the one stored in the secret, and the one the call decoded.
C11_MissingFieldIsEmptyNoError ==
  \A c \in Callers :
    pc[c] = "done" /\ op[c] = "GetSingleSecret" /\ resp[c].err = "nil"
      => /\ \A b \in Bundles :
              Carries(resp[c], b) /\ arg[c].value \notin DOMAIN b
                => ret[c] = [val |-> << >>, err |-> "nil"]
         /\ arg[c].value \notin DOMAIN GetSecretResult(resp[c]).config
              => ret[c] = [val |-> << >>, err |-> "nil"]

\* GetSingleSecret asked for Z of {"A":"1","B":"2"} and returned "" and nil.
C11_Witness ==
  \E c \in Callers :
    /\ pc[c] = "done" /\ op[c] = "GetSingleSecret"
    /\ resp[c].err = "nil" /\ resp[c].SecretString = Marshal(bAB)
    /\ arg[c].value = << "Z" >>
    /\ ret[c] = [val |-> << >>, err |-> "nil"]

\* Caller c's GetSingleSecret and caller d's fetch with operation o have both
\* returned, for the same secret name and the same provider response.
SameResponse(c, d, o) ==
  /\ pc[c] = "done" /\ op[c] = "GetSingleSecret"
  /\ pc[d] = "done" /\ op[d] = o
  /\ arg[c].secretName = arg[d].secretName
  /\ resp[c] = resp[d]

\* What GetSingleSecret returned to c is the error that d's fetch returned and
\* the entry for c's field in the bundle d's fetch returned ("" when missing).
Agree(c, d) ==
  /\ ret[c].err = ret[d].err
  /\ ret[c].val = Lookup(ret[d].val, arg[c].value)

Outside(c) == pc[c] \in {"idle", "done", "range", "panic"}

\* C13: whenever a call has returned (with success, the provider's error, the
\* cancellation error of a timeout, or the error of opening the file), the
\* context it created is cancelled and the file it opened is closed; a
\* context is live or expired and a file is open only inside a running call.
C13_ScopedResourcesReleased ==
  \A c \in Callers :
    /\ Outside(c) => ctx[c] \in {"none", "cancelled"} /\ file[c] \in {"none", "closed"}
    /\ Outside(c) /\ op[c] \in TimedOps /\ Len(sent[c]) > 0 => ctx[c] = "cancelled"
    /\ pc[c] = "done" /\ op[c] = "UploadFileToS3"
         => file[c] = (IF arg[c].path \in DOMAIN Files THEN "closed" ELSE "none")
    /\ file[c] = "open" => op[c] = "UploadFileToS3" /\ pc[c] \in {"wait", "reply"}
    /\ ctx[c] \in {"live", "expired"} => pc[c] \in {"wait", "reply"}

\* The last call of a sequence, an upload that timed out, has returned the
\* cancellation error with its file closed and its context cancelled.
C13_Witness ==
  \E c \in Callers :
    /\ callsLeft[c] = 0
    /\ pc[c] = "done" /\ op[c] = "UploadFileToS3"
    /\ resp[c] = [err |-> Canceled] /\ ret[c] = [err |-> Canceled]
    /\ file[c] = "closed" /\ ctx[c] = "cancelled"

====
